---- MODULE Spec2Model ----
(***************************************************************************)
(* dali2mqtt: the DALI <-> MQTT bridge.                                    *)
(*                                                                         *)
(* The model follows the asyncio program: every coroutine scheduled on the *)
(* event loop is a task, and one action is one run of a task from the      *)
(* await it was suspended at to the next await that really suspends.       *)
(* Tasks are the handlers handed off by the MQTT thread                    *)
(* (run_coroutine_threadsafe) and the periodic probe of main().            *)
(***************************************************************************)
EXTENDS Integers, Sequences, FiniteSets, TLC

\* ------------------------------------------------------------- bounds
MaxCmds == 2          \* commands handed off by the MQTT thread in one run
MaxAddr == 2          \* dali_scan iterates 0..MaxAddr (the code: 0..63)
MaxFailures == 3      \* cap of the unbounded consecutive_failures counter
MaxProbes == 1        \* iterations of the probe loop of main() in one run
MaxRecords == 5       \* outcomes recorded on the HealthMonitor in one run
MaxNotes == 3         \* status notifications delivered in one run
MaxSeqCmds == 2       \* commands handled one after the other in one run
MaxChecks == 3           \* iterations of the loop of main()
MaxRescanCmds == 1    \* commands handed off while a rescan runs

\* ------------------------------------------------------------- program constants
max_reconnect_attempts == 5
max_backoff == 30
max_consecutive_failures == 3
DAPC_SCALE == 254

Probe == 0
CmdTasks == 1..MaxCmds
ScanTask == MaxCmds + 1
LampTask == MaxCmds + 2
Monitor == MaxCmds + 3
Tasks == {Probe} \cup CmdTasks \cup {ScanTask, LampTask, Monitor}

\* ------------------------------------------------------------- addresses, lamp names
Short(a) == [kind |-> "short", id |-> a]
Group(g) == [kind |-> "group", id |-> g]
Broadcast == [kind |-> "broadcast", id |-> 0]
Lights == {Short(a) : a \in 0..MaxAddr} \cup {Group(0), Group(1), Broadcast}

NoObj == 0

VARIABLES
    linkUp,                \* driver.connected (asyncio.Event) is set
    hasConnected,          \* hasattr(driver, "connected"): an HID driver, not None
    reconnect_attempt,     \* DriverManager.reconnect_attempt
    is_connected,          \* DriverManager.is_connected
    status,                \* HealthMonitor.status
    consecutive_failures,  \* HealthMonitor.consecutive_failures
    heap,                  \* Lamp objects: object id -> fields
    all_lamps,             \* data_object["all_lamps"]: device_name -> object id
    group_members,         \* data_object["group_members"]: key -> list of object ids
    handed,                \* number of commands handed off so far
    ticks,                 \* number of probe iterations of main() so far
    ecq,                   \* the tasks waiting in ensure_connected, oldest first
    task                   \* per task: position and locals

vars == <<linkUp, hasConnected, reconnect_attempt, is_connected, status,
          consecutive_failures, heap, all_lamps, group_members, handed, ticks, ecq, task>>

Min(a, b) == IF a < b THEN a ELSE b

\* int(x) of Python truncates toward zero; n/d with d > 0
TruncDiv(n, d) == IF n >= 0 THEN n \div d ELSE -((-n) \div d)

\* ------------------------------------------------------------- Lamp
\* Lamp.set_level: value_scaled = int(min_level + value * ((max_level - min_level) / 254))
value_scaled(l, value) ==
    TruncDiv(DAPC_SCALE * l.min_level + value * (l.max_level - l.min_level), DAPC_SCALE)

\* Lamp.set_level: the test that raises ValueError
set_level_rejects(l, value) ==
    ~(l.min_level <= value_scaled(l, value) /\ value_scaled(l, value) <= l.max_level)
    /\ value # 0

\* Lamp.set_fade_time: the test that raises ValueError
set_fade_time_rejects(value) == ~(0 <= value /\ value <= 15)

\* Lamp.set_fade_rate: the test that raises ValueError
set_fade_rate_rejects(value) == ~(1 <= value /\ value <= 15)

\* a Lamp attribute that holds None
NoneVal == -1

\* Lamp.set_tc: the two tests that raise ValueError
set_tc_rejects(l, value) ==
    \/ l.tc_coolest = NoneVal \/ l.tc_warmest = NoneVal
    \/ ~(l.tc_coolest <= value /\ value <= l.tc_warmest)

\* Lamp.__init__; the attributes that only init() assigns hold the values
\* of _initialize_default_values until then
NewLamp(addr) ==
    [short_address |-> addr, min_physical_level |-> 0, min_level |-> 0,
     max_level |-> 254, level |-> 0, fade_time |-> 0, fade_rate |-> 0,
     tc_coolest |-> NoneVal, tc_warmest |-> NoneVal, tc |-> NoneVal,
     device_type |-> "Generic DALI Ballast", luminaire_id |-> "N/A",
     gtin |-> "N/A", firmware_version |-> "N/A"]

\* Lamp._initialize_default_values, as a record
DefaultLamp(addr) ==
    [NewLamp(addr) EXCEPT !.min_physical_level = 0, !.min_level = 0,
                          !.max_level = 254, !.level = 0,
                          !.tc_coolest = NoneVal, !.tc_warmest = NoneVal,
                          !.tc = NoneVal, !.fade_time = 0, !.fade_rate = 0]

\* ------------------------------------------------------------- HealthMonitor
record_dali_command_success_keeps(c) ==
    [c EXCEPT !.st = IF c.st # "online" THEN "online" ELSE c.st]

record_dali_command_success(c) ==
    [c EXCEPT !.cf = 0,
              !.st = IF c.st # "online" THEN "online" ELSE c.st]

record_dali_command_failure_late(c) ==
    LET n == c.cf + 1
    IN [c EXCEPT !.cf = n,
                 !.st = IF n > max_consecutive_failures /\ c.st = "online"
                        THEN "degraded" ELSE c.st]

record_dali_command_failure(c) ==
    LET n == c.cf + 1
    IN [c EXCEPT !.cf = n,
                 !.st = IF n >= max_consecutive_failures /\ c.st = "online"
                        THEN "degraded" ELSE c.st]

\* record_mqtt_publish_success: only last_successful_mqtt_publish is written;
\* status and consecutive_failures are left alone
record_mqtt_publish_success(c) ==
    [c EXCEPT !.task[Monitor].pubs = @ + 1]

\* record_mqtt_publish_failure: self.status = BridgeStatus.DEGRADED
record_mqtt_publish_failure(c) ==
    [c EXCEPT !.st = "degraded", !.task[Monitor].pubf = @ + 1]

\* the callback of start_monitoring is called with the status
notify(c, s) == [c EXCEPT !.task[Monitor].notes = Append(@, s)]

monitor_tick_forgets(c) ==
    IF c.st # c.task[Monitor].prev THEN notify(c, c.st) ELSE c

\* start_monitoring, lines 107-117: one pass of the loop after the sleep
monitor_tick(c) ==
    IF c.st # c.task[Monitor].prev
    THEN [notify(c, c.st) EXCEPT !.task[Monitor].prev = c.st]
    ELSE c

\* ------------------------------------------------------------- responses
\* what a query answers: a number, the MASK sentinel, None, or a value that
\* int() rejects
Num(n) == [k |-> "num", v |-> n]
Mask == [k |-> "MASK", v |-> 255]
NoResp == [k |-> "None", v |-> 0]
Garbled == [k |-> "other", v |-> 0]

\* ------------------------------------------------------------- tasks
IdleTask ==
    [pc |-> "none", kind |-> "none", light |-> Broadcast, value |-> 0,
     stage |-> "none", obj |-> NoObj,
     delay |-> 0,      \* backoff_delay of the asyncio.sleep the task is in
     ec |-> "none",    \* what ensure_connected returned to the send call in progress
     conn |-> 0,       \* driver.disconnect()/connect() calls of the send call in progress
     ops |-> 0,        \* driver.send / driver.run_sequence calls issued
     ret |-> 0,        \* DriverManager.send calls that returned a result
     rai |-> 0,        \* DriverManager.send calls that raised
     succ |-> 0,       \* record_dali_command_success calls made by this task's sends
     fail |-> 0,       \* record_dali_command_failure calls made by this task's sends
     addr |-> 0,       \* dali_scan: the loop variable
     lamps |-> <<>>,   \* dali_scan: the result list
     yes |-> {},       \* dali_scan: addresses whose presence query answered yes
     confirmed |-> {}, \* dali_scan: addresses whose confirmation query returned
     conf_failed |-> {},  \* dali_scan: addresses whose confirmation query raised
     pres_failed |-> {},  \* dali_scan: addresses whose presence query raised DALIError
     prev |-> "online",   \* start_monitoring: previous_status
     notes |-> <<>>,      \* start_monitoring: the statuses the callback was called with
     pubs |-> 0,          \* record_mqtt_publish_success calls
     pubf |-> 0,          \* record_mqtt_publish_failure calls
     status_byte |-> NoneVal,  \* _get_actual_level: status_byte, once read
     attempt |-> 0,       \* _query_actual_level_with_retry: the loop variable
     lvq |-> <<>>,        \* the responses of the QueryActualLevel calls of this init
     q_cool |-> NoResp,   \* _initialize_color_temperature: tc_coolest_response
     q_warm |-> NoResp,   \* _initialize_color_temperature: tc_warmest_response
     q_tc |-> NoResp,     \* _initialize_color_temperature: tc_response
     ran |-> {},          \* the steps of Lamp.init that have started
     phase |-> "none",    \* initialize_lamps: the call it is awaiting
     idx |-> 0,           \* the lamps of the for loop taken so far
     group1 |-> 0,        \* scan_groups: group1 of the lamp of the loop
     masks |-> <<>>,      \* scan_groups: lamp -> the two masks it answered
     groups |-> [keys |-> <<>>, val |-> <<>>],   \* scan_groups: the dict groups
     gdone |-> 0,         \* initialize_lamps: groups of "for group in groups" taken
     address_to_lamp |-> <<>>,   \* initialize_lamps: address -> Lamp object
     now |-> 0,                  \* main: time.time(), in iterations of its loop
     unhealthy_since |-> NoneVal,   \* main: unhealthy_since
     since_succ |-> <<>>]        \* history: the success counts when unhealthy_since was set

\* The values an action computes before it commits them
Ctx ==
    [task |-> task, att |-> reconnect_attempt, conn |-> is_connected,
     st |-> status, cf |-> consecutive_failures, heap |-> heap, ecq |-> ecq,
     all_lamps |-> all_lamps, group_members |-> group_members]

Commit(c) ==
    /\ task' = c.task
    /\ reconnect_attempt' = c.att
    /\ is_connected' = c.conn
    /\ status' = c.st
    /\ consecutive_failures' = c.cf
    /\ heap' = c.heap
    /\ ecq' = c.ecq
    /\ all_lamps' = c.all_lamps
    /\ group_members' = c.group_members

InFlight == {t \in Tasks : task[t].pc = "drv_wait"}

\* ------------------------------------------------------------- DriverManager
cap_reached_late(att) == att > max_reconnect_attempts

\* _attempt_reconnection, line 73: the cap test
cap_reached(att) == att >= max_reconnect_attempts

backoff_delay_uncapped(att) == 2 ^ att

\* _attempt_reconnection, line 81: backoff_delay = min(2 ** attempt, 30)
backoff_delay(att) == Min(2 ^ att, max_backoff)

\* driver.send(command) / driver.run_sequence(sequence) is called: the task
\* now awaits the transport's response
IssueOp(c, t) ==
    [c EXCEPT !.task[t].pc = "drv_wait", !.task[t].ops = @ + 1]

\* ensure_connected returned r inside send/run_sequence: the code ignores r
\* and calls the driver
AfterEnsure(c, t, r) ==
    IssueOp([c EXCEPT !.task[t].ec = r], t)

MarkConnected_keeps_attempt(c) == [c EXCEPT !.conn = TRUE]

\* ensure_connected, lines 50-52 and _attempt_reconnection, lines 112-114
MarkConnected(c) == [c EXCEPT !.conn = TRUE, !.att = 0]

\* main, lines 953-977: the check that follows the probe.  An iteration of
\* the loop lasts the 60 s of its sleep and the time of its probe, more than
\* 60 s and less than 120 s, so time.time() - unhealthy_since > 120 holds
\* from the second iteration after the one that set unhealthy_since.
health_check(c) ==
    LET tk == c.task[Probe]
        fresh == tk.unhealthy_since = NoneVal
        since == IF fresh THEN tk.now ELSE tk.unhealthy_since
        driver_dead == ~c.conn
    IN IF c.st # "online"
       THEN [c EXCEPT !.task[Probe].unhealthy_since = since,
                      !.task[Probe].since_succ =
                          IF fresh THEN [t \in Tasks |-> c.task[t].succ] ELSE @,
                      !.task[Probe].pc =
                          IF driver_dead /\ 60 * (tk.now - since) >= 120
                          THEN "returned" ELSE @]
       ELSE [c EXCEPT !.task[Probe].unhealthy_since = NoneVal,
                      !.task[Probe].since_succ = <<>>]

\* the coroutine ends: normally, or with an exception nobody catches; the
\* probe of main() is followed by the health check and the next sleep
Finish(c, t, how) ==
    IF t = Probe
    THEN health_check([c EXCEPT !.task[t].pc = "sleep"])
    ELSE [c EXCEPT !.task[t].pc = how]

\* DriverManager.send / run_sequence, lines 143-145: the driver returned
send_returns(c, t) ==
    [record_dali_command_success(c) EXCEPT !.task[t].succ = @ + 1,
                                           !.task[t].ret = @ + 1,
                                           !.task[t].ec = "none",
                                           !.task[t].conn = 0]

send_raises_unrecorded(c, t) ==
    [c EXCEPT !.task[t].rai = @ + 1, !.task[t].ec = "none", !.task[t].conn = 0]

\* DriverManager.send / run_sequence, lines 146-149: the driver raised
send_raises(c, t) ==
    [record_dali_command_failure(c) EXCEPT !.task[t].fail = @ + 1,
                                           !.task[t].rai = @ + 1,
                                           !.task[t].ec = "none",
                                           !.task[t].conn = 0]

\* an exception that is no DALIError leaves every handler uncaught; only the
\* probe of main() has an "except Exception"
unhandled(c, t) ==
    Finish(c, t, IF c.task[t].kind = "probe" THEN "done" ELSE "failed")

\* main(), line 844: no driver branch was taken and driver is None, so
\* self.driver.send raises AttributeError without suspending
driver_missing(c, t) == unhandled(send_raises(c, t), t)

\* DriverManager.send / run_sequence from its call to the first await that
\* suspends: ensure_connected waits for driver.connected (an HID driver), or
\* returns True at once when the driver has no such event (lines 57-60)
Send(c, t, stage) ==
    LET c1 == [c EXCEPT !.task[t].stage = stage, !.task[t].ec = "none",
                        !.task[t].delay = 0, !.task[t].conn = 0]
    IN IF hasConnected
       THEN [c1 EXCEPT !.task[t].pc = "ec_wait", !.ecq = Append(@, t)]
       ELSE driver_missing([c1 EXCEPT !.conn = TRUE], t)

\* _attempt_reconnection from its call to its first await (lines 73-90)
attempt_reconnection(c, t) ==
    IF cap_reached(c.att)
    THEN AfterEnsure(c, t, "false")
    ELSE [c EXCEPT !.att = @ + 1,
                   !.task[t].delay = backoff_delay(c.att + 1),
                   !.task[t].pc = "backoff"]

\* ensure_connected resumes with the event set (lines 50-52)
ensure_connected_live(c, t) ==
    AfterEnsure(MarkConnected([c EXCEPT !.ecq = Tail(@)]), t, "true")

\* ensure_connected resumes on asyncio.TimeoutError (lines 53-56)
ensure_connected_timeout(c, t) ==
    attempt_reconnection([c EXCEPT !.conn = FALSE, !.ecq = Tail(@)], t)

\* driver.connect() and what follows (lines 100-117, 127-129)
reconnect_connect(c, t, connect_ok) ==
    LET c1 == [c EXCEPT !.task[t].conn = @ + 1]
    IN IF connect_ok
       THEN [c1 EXCEPT !.task[t].pc = "rc_wait"]
       ELSE AfterEnsure(c1, t, "false")

\* after the backoff sleep: driver.disconnect() (lines 92-98); when it raises
\* the inner except skips the one-second sleep
reconnect_after_backoff(c, t, disconnect_ok, connect_ok) ==
    LET c1 == [c EXCEPT !.task[t].conn = @ + 1, !.task[t].delay = 0]
    IN IF disconnect_ok
       THEN [c1 EXCEPT !.task[t].pc = "disc_sleep"]
       ELSE reconnect_connect(c1, t, connect_ok)

\* the 10 s wait succeeded (lines 111-114) or timed out (lines 115-117)
reconnect_live(c, t) == AfterEnsure(MarkConnected(c), t, "true")
reconnect_timeout(c, t) == AfterEnsure(c, t, "false")

\* ------------------------------------------------------------- handlers
Range(s) == {s[i] : i \in DOMAIN s}

\* data_object["group_members"].get(key, [])
members_get(key) ==
    IF key \in DOMAIN group_members THEN group_members[key] ELSE <<>>

\* the "members" lookup of the command handlers (dali2mqtt.py 540-547)
members_of(light) ==
    IF light.kind = "group" THEN members_get(Group(light.id))
    ELSE IF light.kind = "broadcast" THEN members_get(Broadcast)
    ELSE <<>>

\* for member in members: member.set_level_local(level)
fanout_level(c, t, level) ==
    LET ms == Range(members_of(c.task[t].light))
    IN [c EXCEPT !.heap = [o \in DOMAIN c.heap |->
                              IF o \in ms THEN [c.heap[o] EXCEPT !.level = level]
                              ELSE c.heap[o]]]

\* on_message_tc_cmd, lines 609-612: set_tc_local on the members that
\* have a colour temperature range
fanout_tc(c, t, tc) ==
    LET ms == Range(members_of(c.task[t].light))
    IN [c EXCEPT !.heap = [o \in DOMAIN c.heap |->
                              IF o \in ms /\ c.heap[o].tc_coolest # NoneVal
                                          /\ c.heap[o].tc_warmest # NoneVal
                              THEN [c.heap[o] EXCEPT !.tc = tc]
                              ELSE c.heap[o]]]

\* int(x) of a response value: defined for a number only
IsNum(r) == r.k = "num"

\* initialize_lamps resumes when the coroutine it awaits has returned
RECURSIVE initialize_lamps_resume(_, _)

\* a coroutine that a handler or initialize_lamps awaits returns
Return(c, t) ==
    IF c.task[t].kind = "initialize_lamps"
    THEN initialize_lamps_resume(c, t)
    ELSE Finish(c, t, "done")

scan_next_stops(c, t) == Return(c, t)

\* dali_scan: the for loop moves to the next address or returns lamps
scan_next(c, t) ==
    IF c.task[t].addr < MaxAddr
    THEN Send([c EXCEPT !.task[t].addr = @ + 1], t, "presence")
    ELSE Return(c, t)

\* ------------------------------------------------------------- scan_groups
\* a & b on non-negative integers
RECURSIVE BitAnd(_, _)
BitAnd(a, b) ==
    IF a = 0 \/ b = 0 THEN 0
    ELSE (a % 2) * (b % 2) + 2 * BitAnd(a \div 2, b \div 2)

checkgroup_off_by_one(i) == 2 ^ (i + 1)

\* checkgroup = 1 << i
checkgroup(i) == 2 ^ i

\* if k not in groups: groups[k] = []; groups[k].append(lamp)
dict_append(d, k, lamp) ==
    IF k \in DOMAIN d.val
    THEN [d EXCEPT !.val[k] = Append(@, lamp)]
    ELSE [keys |-> Append(d.keys, k), val |-> (k :> <<lamp>>) @@ d.val]

\* scan_groups, lines 128-139: the loop "for i in range(8)" from i on
RECURSIVE group_bits(_, _, _, _, _)
group_bits(groups, lamp, group1, group2, i) ==
    IF i = 8 THEN groups
    ELSE LET g1 == IF BitAnd(group1, checkgroup(i)) = checkgroup(i)
                   THEN dict_append(groups, i, lamp) ELSE groups
             g2 == IF BitAnd(group2, checkgroup(i)) # 0
                   THEN dict_append(g1, i + 8, lamp) ELSE g1
         IN group_bits(g2, lamp, group1, group2, i + 1)

\* scan_groups: the loop "for lamp in lamps" takes the next lamp or returns
scan_groups_next(c, t) ==
    LET tk == c.task[t]
    IN IF tk.idx < Len(tk.lamps)
       THEN Send([c EXCEPT !.task[t].idx = @ + 1], t, "groups07")
       ELSE Return(c, t)

scan_groups_first_aborts(c, t, resp) ==
    IF IsNum(resp)
    THEN Send([c EXCEPT !.task[t].group1 = resp.v], t, "groups815")
    ELSE Return(c, t)

\* scan_groups, lines 116-118: the first query returned; .value.as_integer
\* raises on a missing response and the except clause skips the lamp
scan_groups_first(c, t, resp) ==
    IF IsNum(resp)
    THEN Send([c EXCEPT !.task[t].group1 = resp.v], t, "groups815")
    ELSE scan_groups_next(c, t)

\* scan_groups, lines 119-139: the second query returned
scan_groups_second(c, t, resp) ==
    LET tk == c.task[t]
        lamp == tk.lamps[tk.idx]
    IN IF IsNum(resp)
       THEN scan_groups_next(
                [c EXCEPT !.task[t].groups = group_bits(@, lamp, tk.group1, resp.v, 0),
                          !.task[t].masks = (lamp :> <<tk.group1, resp.v>>) @@ @], t)
       ELSE scan_groups_next(c, t)

\* dali_scan, line 93: isinstance(present, YesNoResponse) and present.value
scan_present(resp) == resp = "yes"

\* dali_scan, lines 97-99: the confirmation query returned
scan_confirmed(c, t) ==
    scan_next([c EXCEPT !.task[t].lamps = Append(@, c.task[t].addr)], t)

scan_confirm_failed_keeps(c, t) ==
    scan_next([c EXCEPT !.task[t].lamps = Append(@, c.task[t].addr)], t)

\* dali_scan, lines 100-101: the confirmation query raised DALIError
scan_confirm_failed(c, t) == scan_next(c, t)

\* the first run of a handler, up to its first await that suspends
begin_brightness(c, t) ==
    LET tk == c.task[t]
        o == all_lamps[tk.light]
    IN IF o = NoObj THEN Finish(c, t, "done")                  \* KeyError, logged
       ELSE IF set_level_rejects(c.heap[o], tk.value)
            THEN Finish([c EXCEPT !.task[t].obj = o], t, "done")  \* ValueError, logged
       ELSE Send([c EXCEPT !.task[t].obj = o,
                           !.heap[o].level = tk.value], t, "dapc")

begin_off(c, t) ==
    LET o == all_lamps[c.task[t].light]
    IN IF o = NoObj THEN Finish(c, t, "done")
       ELSE Send([c EXCEPT !.task[t].obj = o], t, "off")

begin_fade_time(c, t) ==
    LET tk == c.task[t]
        o == all_lamps[tk.light]
    IN IF o = NoObj THEN Finish(c, t, "done")
       ELSE IF set_fade_time_rejects(tk.value)
            THEN Finish([c EXCEPT !.task[t].obj = o], t, "done")
       ELSE Send([c EXCEPT !.task[t].obj = o], t, "dtr0")

begin_fade_rate(c, t) ==
    LET tk == c.task[t]
        o == all_lamps[tk.light]
    IN IF o = NoObj THEN Finish(c, t, "done")
       ELSE IF set_fade_rate_rejects(tk.value)
            THEN Finish([c EXCEPT !.task[t].obj = o], t, "done")
       ELSE Send([c EXCEPT !.task[t].obj = o], t, "dtr0")

\* on_message_tc_cmd up to the run_sequence of Lamp.set_tc
begin_tc(c, t) ==
    LET tk == c.task[t]
        o == all_lamps[tk.light]
    IN IF o = NoObj THEN Finish(c, t, "done")                  \* KeyError, logged
       ELSE IF set_tc_rejects(c.heap[o], tk.value)
            THEN Finish([c EXCEPT !.task[t].obj = o], t, "done")  \* ValueError, logged
       ELSE Send([c EXCEPT !.task[t].obj = o,
                           !.heap[o].tc = tk.value], t, "set_tc")

\* on_message_tc_cmd after set_tc returned (lines 590-617)
after_tc(c, t) ==
    Finish(fanout_tc(c, t, c.heap[c.task[t].obj].tc), t, "done")

\* Lamp.off, line 541, then the fan-out of on_message_cmd / brightness_cmd
after_off(c, t) ==
    LET c1 == [c EXCEPT !.heap[c.task[t].obj].level = 0]
    IN Finish(fanout_level(c1, t, c1.heap[c1.task[t].obj].level), t, "done")

\* on_message_brightness_cmd after set_level returned (lines 523-561)
after_dapc(c, t) ==
    LET o == c.task[t].obj
    IN IF c.heap[o].level = 0
       THEN Send(c, t, "off")
       ELSE Finish(fanout_level(c, t, c.heap[o].level), t, "done")

\* ------------------------------------------------------------- Lamp.init
\* _get_actual_level: lamp_on = (status_byte & 0x04) != 0
lamp_on_wrong_bit(status_byte) == (status_byte \div 2) % 2 = 1

lamp_on(status_byte) == (status_byte \div 4) % 2 = 1

\* _get_actual_level: fade_running = (status_byte & 0x10) != 0
fade_running(status_byte) == (status_byte \div 16) % 2 = 1

\* _query_actual_level_with_retry: max_retries
max_retries == 3

retry_allowed_once_more(attempt) == attempt < max_retries

\* _query_actual_level_with_retry, line 186: attempt < max_retries - 1
retry_allowed(attempt) == attempt < max_retries - 1

\* the task goes into an asyncio.sleep and will send the query of stage next
Nap(c, t, stage) ==
    [c EXCEPT !.task[t].pc = "nap", !.task[t].stage = stage]

\* one more step of Lamp.init starts
Ran(c, t, step) == [c EXCEPT !.task[t].ran = @ \cup {step}]

\* create_mqtt_lamp after init() returned (dali2mqtt.py 245-317): the lamp is
\* stored under its device name and its topics are published
lamp_store(c, t) ==
    Return([c EXCEPT !.all_lamps[c.task[t].light] = c.task[t].obj], t)

\* create_mqtt_lamp: init() raised
lamp_init_raised(c, t, exc) ==
    IF exc = "DALIError" THEN Return(c, t) ELSE Finish(c, t, "failed")

\* _initialize_memory_bank_info, the three reads in turn
memory_bank_next(c, t) ==
    CASE c.task[t].stage = "lum_id" -> Send(c, t, "gtin")
      [] c.task[t].stage = "gtin" -> Send(c, t, "fw")
      [] c.task[t].stage = "fw" -> lamp_store(c, t)

\* _initialize_memory_bank_info starts, or is skipped for a group
initialize_memory_bank_info(c, t) ==
    IF c.task[t].light.kind # "short" THEN lamp_store(c, t)
    ELSE Send(Ran(c, t, "memory"), t, "lum_id")

\* _initialize_device_type starts, or is skipped for a group
initialize_device_type(c, t) ==
    IF c.task[t].light.kind # "short" THEN initialize_memory_bank_info(c, t)
    ELSE Send(Ran(c, t, "type"), t, "dev_type")

\* _initialize_color_temperature, lines 213-216 and 221-225: the feature is
\* disabled
tc_disabled(c, t) ==
    LET o == c.task[t].obj
    IN [c EXCEPT !.heap[o].tc_coolest = NoneVal, !.heap[o].tc_warmest = NoneVal,
                 !.heap[o].tc = NoneVal]

\* int(r) if r is not None else None
int_or_none(r) == IF r = NoResp THEN NoneVal ELSE r.v

\* _initialize_color_temperature, lines 207-225, with the three responses
initialize_color_temperature(c, t) ==
    LET tk == c.task[t]
        o == tk.obj
    IN IF \E r \in {tk.q_cool, tk.q_warm, tk.q_tc} : r # NoResp /\ ~IsNum(r)
       THEN tc_disabled(c, t)          \* int() raised, except Exception
       ELSE LET coolest == int_or_none(tk.q_cool)
                warmest == int_or_none(tk.q_warm)
            IN IF coolest = NoneVal \/ warmest = NoneVal \/ coolest = 0 \/ warmest = 0
               THEN tc_disabled(c, t)
               ELSE [c EXCEPT !.heap[o].tc_coolest = coolest,
                              !.heap[o].tc_warmest = warmest,
                              !.heap[o].tc = int_or_none(tk.q_tc)]

\* _initialize_color_temperature starts with asyncio.sleep(0.1)
color_temperature_begin(c, t) == Nap(Ran(c, t, "tc"), t, "tc_cool")

\* _get_actual_level ends with the level it found
level_found(c, t, level) ==
    color_temperature_begin([c EXCEPT !.heap[c.task[t].obj].level = level], t)

level_unreadable_keeps(c, t) ==
    color_temperature_begin(c, t)

\* _query_actual_level_with_retry, lines 189-195: the level cannot be read
\* although the lamp is on
level_unreadable(c, t) == level_found(c, t, 254)

\* _query_actual_level_with_retry: a QueryActualLevel returned level_response
query_actual_level_with_retry(c, t, level_response) ==
    LET c1 == [c EXCEPT !.task[t].lvq = Append(@, level_response)]
        attempt == c.task[t].attempt
    IN IF IsNum(level_response) THEN level_found(c1, t, level_response.v)
       ELSE IF level_response = Mask
            THEN IF retry_allowed(attempt)
                 THEN Nap([c1 EXCEPT !.task[t].attempt = attempt + 1], t, "level")
                 ELSE level_unreadable(c1, t)
       ELSE level_unreadable(c1, t)

\* _get_actual_level: QueryStatus returned status_resp
get_actual_level(c, t, status_resp) ==
    IF ~IsNum(status_resp) THEN level_found(c, t, 0)   \* except Exception
    ELSE LET c1 == [c EXCEPT !.task[t].status_byte = status_resp.v,
                             !.task[t].attempt = 0]
         IN IF ~lamp_on(status_resp.v) THEN level_found(c1, t, 0)
            ELSE IF fade_running(status_resp.v) THEN Nap(c1, t, "level")
            ELSE Send(c1, t, "level")

\* _initialize_fade_settings: QueryFadeTimeFadeRate returned or raised
initialize_fade_settings(c, t, response) ==
    LET o == c.task[t].obj
        v == IF IsNum(response) THEN response.v ELSE 0
    IN Send(Ran([c EXCEPT !.heap[o].fade_time = v, !.heap[o].fade_rate = v],
                t, "level"), t, "status")

\* _initialize_limits: one of its three queries returned r
initialize_limits(c, t, r) ==
    LET o == c.task[t].obj
    IN CASE c.task[t].stage = "phys_min" ->
              Send([c EXCEPT !.heap[o].min_physical_level =
                                 IF IsNum(r) THEN r.v ELSE 0], t, "min_level")
         [] c.task[t].stage = "min_level" ->
              Send([c EXCEPT !.heap[o].min_level =
                                 IF IsNum(r) THEN r.v ELSE 0], t, "max_level")
         [] c.task[t].stage = "max_level" ->
              Send(Ran([c EXCEPT !.heap[o].max_level =
                                     IF IsNum(r) THEN r.v ELSE 254], t, "fade"),
                   t, "fade")

\* Lamp.init after one of its queries returned
lamp_on_return(c, t, resp) ==
    LET tk == c.task[t]
        o == tk.obj
    IN CASE tk.stage \in {"phys_min", "min_level", "max_level"} ->
              initialize_limits(c, t, resp)
         [] tk.stage = "fade" -> initialize_fade_settings(c, t, resp)
         [] tk.stage = "status" -> get_actual_level(c, t, resp)
         [] tk.stage = "level" -> query_actual_level_with_retry(c, t, resp)
         [] tk.stage = "tc_cool" -> Send([c EXCEPT !.task[t].q_cool = resp], t, "tc_warm")
         [] tk.stage = "tc_warm" -> Send([c EXCEPT !.task[t].q_warm = resp], t, "tc")
         [] tk.stage = "tc" ->
              initialize_device_type(
                  initialize_color_temperature([c EXCEPT !.task[t].q_tc = resp], t), t)
         [] tk.stage = "dev_type" ->
              initialize_memory_bank_info([c EXCEPT !.heap[o].device_type = "types"], t)
         [] tk.stage = "lum_id" ->
              memory_bank_next([c EXCEPT !.heap[o].luminaire_id = "read"], t)
         [] tk.stage = "gtin" ->
              memory_bank_next([c EXCEPT !.heap[o].gtin = "read"], t)
         [] tk.stage = "fw" ->
              memory_bank_next([c EXCEPT !.heap[o].firmware_version = "read"], t)

\* Lamp.init after one of its queries raised
lamp_on_raise(c, t, exc) ==
    LET tk == c.task[t]
        o == tk.obj
    IN CASE tk.stage \in {"phys_min", "min_level", "max_level"} ->
              lamp_init_raised(c, t, exc)
         [] tk.stage = "fade" -> initialize_fade_settings(c, t, Garbled)
         [] tk.stage \in {"status", "level"} -> level_found(c, t, 0)
         [] tk.stage \in {"tc_cool", "tc_warm", "tc"} ->
              initialize_device_type(tc_disabled(c, t), t)
         [] tk.stage = "dev_type" -> initialize_memory_bank_info(c, t)
         [] tk.stage = "lum_id" ->
              memory_bank_next([c EXCEPT !.heap[o].luminaire_id = "None"], t)
         [] tk.stage = "gtin" ->
              memory_bank_next([c EXCEPT !.heap[o].gtin = "None"], t)
         [] tk.stage = "fw" ->
              memory_bank_next([c EXCEPT !.heap[o].firmware_version = "None"], t)

\* create_mqtt_lamp: Lamp(...) and init() up to its first await
begin_create_lamp(c, t) ==
    LET addr == c.task[t].light
        o == Len(c.heap) + 1
        c1 == [c EXCEPT !.heap = Append(@, NewLamp(addr)), !.task[t].obj = o]
    IN IF addr.kind = "broadcast"
       THEN lamp_store([c1 EXCEPT !.heap[o] = DefaultLamp(addr)], t)
       ELSE Send(Ran(c1, t, "limits"), t, "phys_min")

\* ------------------------------------------------------------- initialize_lamps
\* await create_mqtt_lamp(address, name)
create_mqtt_lamp(c, t, addr) ==
    begin_create_lamp(
        [c EXCEPT !.task[t].light = addr,
                  !.task[t].status_byte = NoneVal, !.task[t].attempt = 0,
                  !.task[t].lvq = <<>>, !.task[t].q_cool = NoResp,
                  !.task[t].q_warm = NoResp, !.task[t].q_tc = NoResp,
                  !.task[t].ran = {}], t)

\* initialize_lamps, lines 336-344: address_to_lamp, from all of all_lamps
build_address_to_lamp(c) ==
    LET A == {a \in 0..MaxAddr : c.all_lamps[Short(a)] # NoObj}
    IN [a \in A |-> c.all_lamps[Short(a)]]

\* initialize_lamps, lines 356-360: the members of the group just created
store_group_members(c, t) ==
    LET tk == c.task[t]
        g == tk.groups.keys[tk.gdone]
        found == SelectSeq(tk.groups.val[g], LAMBDA a : a \in DOMAIN tk.address_to_lamp)
        ms == [i \in 1..Len(found) |-> tk.address_to_lamp[found[i]]]
    IN [c EXCEPT !.group_members = (Group(g) :> ms) @@ @]

\* initialize_lamps, line 369: the members of broadcast
store_broadcast_members(c, t) ==
    LET f == c.task[t].address_to_lamp
        \* list(f.values()), by address
        values == [i \in 1..Cardinality(DOMAIN f) |->
                     f[CHOOSE a \in DOMAIN f :
                           Cardinality({b \in DOMAIN f : b < a}) = i - 1]]
    IN [c EXCEPT !.group_members = (Broadcast :> values) @@ @]

\* initialize_lamps, lines 322-328: the loop "for lamp in lamps", then
\* line 330: await scan_groups(driver, lamps)
lamps_loop(c, t) ==
    LET tk == c.task[t]
    IN IF tk.idx < Len(tk.lamps)
       THEN create_mqtt_lamp([c EXCEPT !.task[t].idx = @ + 1], t,
                             Short(tk.lamps[tk.idx + 1]))
       ELSE scan_groups_next([c EXCEPT !.task[t].phase = "scan_groups",
                                       !.task[t].idx = 0], t)

\* initialize_lamps, lines 346-366: the loop "for group in groups", then
\* the broadcast lamp
groups_loop(c, t) ==
    LET tk == c.task[t]
    IN IF tk.gdone < Len(tk.groups.keys)
       THEN create_mqtt_lamp([c EXCEPT !.task[t].gdone = @ + 1], t,
                             Group(tk.groups.keys[tk.gdone + 1]))
       ELSE create_mqtt_lamp([c EXCEPT !.task[t].phase = "broadcast"], t, Broadcast)

initialize_lamps_resume(c, t) ==
    LET tk == c.task[t]
    IN CASE tk.phase = "dali_scan" ->
              lamps_loop([c EXCEPT !.task[t].phase = "lamps", !.task[t].idx = 0], t)
         [] tk.phase = "lamps" -> lamps_loop(c, t)
         [] tk.phase = "scan_groups" ->
              \* lines 333-344: group_members = {} and address_to_lamp
              groups_loop([c EXCEPT !.group_members = <<>>,
                                    !.task[t].address_to_lamp = build_address_to_lamp(c),
                                    !.task[t].phase = "groups",
                                    !.task[t].gdone = 0], t)
         [] tk.phase = "groups" -> groups_loop(store_group_members(c, t), t)
         [] tk.phase = "broadcast" ->
              Finish(store_broadcast_members(c, t), t, "done")

\* initialize_lamps up to the first query of dali_scan
begin_initialize_lamps(c, t) ==
    Send([c EXCEPT !.task[t].phase = "dali_scan"], t, "presence")

\* Lamp.init is running in the task
in_lamp_init(tk) ==
    \/ tk.kind = "create_lamp"
    \/ tk.kind = "initialize_lamps" /\ tk.phase \in {"lamps", "groups", "broadcast"}

\* the first run of the coroutine of a task
begin_handler(c, t) ==
    CASE c.task[t].kind = "brightness" -> begin_brightness(c, t)
      [] c.task[t].kind = "off" -> begin_off(c, t)
      [] c.task[t].kind = "fade_time" -> begin_fade_time(c, t)
      [] c.task[t].kind = "fade_rate" -> begin_fade_rate(c, t)
      [] c.task[t].kind = "tc" -> begin_tc(c, t)
      [] c.task[t].kind = "scan" -> Send(c, t, "presence")
      [] c.task[t].kind = "probe" -> Send(c, t, "probe")
      [] c.task[t].kind = "create_lamp" -> begin_create_lamp(c, t)
      [] c.task[t].kind = "scan_groups" -> scan_groups_next(c, t)
      [] c.task[t].kind = "initialize_lamps" -> begin_initialize_lamps(c, t)

\* the handler resumes with the result of DriverManager.send
on_return(c, t, resp) ==
    LET tk == c.task[t]
    IN CASE in_lamp_init(tk) -> lamp_on_return(c, t, resp)
         [] tk.stage = "groups07" -> scan_groups_first(c, t, resp)
         [] tk.stage = "groups815" -> scan_groups_second(c, t, resp)
         [] tk.stage = "dapc" -> after_dapc(c, t)
         [] tk.stage = "off" /\ tk.kind = "brightness" -> after_off(c, t)
         [] tk.stage = "off" /\ tk.kind = "off" ->
                Finish(fanout_level([c EXCEPT !.heap[tk.obj].level = 0], t, 0), t, "done")
         [] tk.stage = "dtr0" -> Send(c, t, "store1")
         [] tk.stage = "store1" -> Send(c, t, "store2")
         [] tk.stage = "store2" /\ tk.kind = "fade_time" ->
                Finish([c EXCEPT !.heap[tk.obj].fade_time = tk.value], t, "done")
         [] tk.stage = "store2" /\ tk.kind = "fade_rate" ->
                Finish([c EXCEPT !.heap[tk.obj].fade_rate = tk.value], t, "done")
         [] tk.stage = "set_tc" -> after_tc(c, t)
         [] tk.stage = "probe" -> Finish(c, t, "done")
         [] tk.stage = "presence" ->
                IF scan_present(resp)
                THEN Send([c EXCEPT !.task[t].yes = @ \cup {tk.addr}], t, "confirm")
                ELSE scan_next(c, t)
         [] tk.stage = "confirm" ->
                scan_confirmed([c EXCEPT !.task[t].confirmed = @ \cup {tk.addr}], t)

\* the handler resumes with the exception DriverManager.send re-raised
on_raise(c, t, exc) ==
    LET tk == c.task[t]
        c1 == IF tk.stage = "confirm"
              THEN [c EXCEPT !.task[t].conf_failed = @ \cup {tk.addr}]
              ELSE IF tk.stage = "presence" /\ exc = "DALIError"
              THEN [c EXCEPT !.task[t].pres_failed = @ \cup {tk.addr}]
              ELSE c
    IN IF in_lamp_init(tk) THEN lamp_on_raise(c1, t, exc)
       ELSE IF tk.stage \in {"groups07", "groups815"}
            THEN scan_groups_next(c1, t)              \* except Exception
       ELSE IF exc # "DALIError" THEN unhandled(c1, t)
       ELSE CASE tk.kind = "probe" -> Finish(c1, t, "done")
              [] tk.kind = "off" -> Finish(c1, t, "done")      \* logged
              [] tk.kind \in {"brightness", "fade_time", "fade_rate", "tc"} ->
                     Finish(c1, t, "failed")
              [] tk.stage = "presence" -> scan_next(c1, t)
              [] tk.stage = "confirm" -> scan_confirm_failed(c1, t)

\* ------------------------------------------------------------- inputs
Exceptions == {"DALIError", "other"}

Cmd(k, l, v) == [kind |-> k, light |-> l, value |-> v]

Cmds ==
    {Cmd("brightness", Group(0), v) : v \in {0, 50, 100}}
    \cup {Cmd("off", Group(0), 0), Cmd("fade_time", Short(0), 5)}

\* what the transport can answer to the query of a stage
Responses(stage) ==
    CASE stage = "presence" -> {"yes", "no"}
      [] stage \in {"phys_min", "min_level"} -> {Num(1), Garbled}
      [] stage = "max_level" -> {Num(200), Garbled}
      [] stage = "fade" -> {Num(7), Garbled}
      [] stage = "status" -> {Num(0), Num(2), Num(4), Num(20), Garbled}
      [] stage = "level" -> {Num(0), Num(128), Mask, Garbled}
      [] stage = "tc_cool" -> {NoResp, Num(0), Num(153)}
      [] stage = "tc_warm" -> {NoResp, Num(370)}
      [] stage = "tc" -> {NoResp, Num(250), Num(500)}
      [] stage = "groups07" -> {NoResp, Num(0), Num(1), Num(6), Num(129), Num(255)}
      [] stage = "groups815" -> {NoResp, Num(0), Num(1), Num(130)}
      [] OTHER -> {"ok"}

\* During a rescan the model lets the queries of Lamp.init answer one
\* value each (a lamp that is on at level 128 and has no colour temperature), and the
\* group queries put a lamp in group 0 or in no group.
RescanResponses(stage) ==
    CASE stage = "presence" -> {"yes", "no"}
      [] stage \in {"phys_min", "min_level"} -> {Num(1)}
      [] stage = "max_level" -> {Num(200)}
      [] stage = "fade" -> {Num(7)}
      [] stage = "status" -> {Num(4)}
      [] stage = "level" -> {Num(128)}
      [] stage \in {"tc_cool", "tc_warm", "tc"} -> {NoResp}
      [] stage = "groups07" -> {Num(0), Num(1)}
      [] stage = "groups815" -> {Num(0)}
      [] OTHER -> {"ok"}

\* the queries of a rescan that the model lets the driver raise on
RescanFaults == {"presence", "confirm", "phys_min", "groups07"}

\* the answers the transport can give to the query a task is waiting for
Answers(tk) ==
    IF tk.kind = "initialize_lamps" THEN RescanResponses(tk.stage)
    ELSE Responses(tk.stage)

\* ------------------------------------------------------------- initial states
\* The bridge has started on a live link and the first initialize_lamps has
\* found the lamps 0 and 1, both in group 0.
InitHeap ==
    (1 :> [NewLamp(Short(0)) EXCEPT !.min_level = 85, !.max_level = 254])
    @@ (2 :> [NewLamp(Short(1)) EXCEPT !.min_level = 1, !.max_level = 254])
    @@ (3 :> DefaultLamp(Group(0)))
    @@ (4 :> DefaultLamp(Broadcast))

InitTasks ==
    [t \in Tasks |-> IF t = Probe
                     THEN [IdleTask EXCEPT !.pc = "sleep", !.kind = "probe"]
                     ELSE IdleTask]

Init ==
    /\ linkUp = TRUE
    /\ hasConnected \in BOOLEAN
    /\ reconnect_attempt = 0
    /\ is_connected = TRUE
    /\ status = "online"
    /\ consecutive_failures = 0
    /\ heap = InitHeap
    /\ all_lamps = [l \in Lights |->
                      CASE l = Short(0) -> 1 [] l = Short(1) -> 2
                        [] l = Group(0) -> 3 [] l = Broadcast -> 4
                        [] OTHER -> NoObj]
    /\ group_members = (Group(0) :> <<1, 2>>) @@ (Broadcast :> <<1, 2>>)
    /\ handed = 0
    /\ ticks = 0
    /\ ecq = <<>>
    /\ task = InitTasks

\* ------------------------------------------------------------- actions
dirVars == <<all_lamps, group_members>>

\* the MQTT thread: asyncio.run_coroutine_threadsafe(handler(...), loop)
HandOff ==
    /\ handed < MaxCmds
    /\ \E cmd \in Cmds :
         task' = [task EXCEPT ![handed + 1] =
                     [IdleTask EXCEPT !.pc = "queued", !.kind = cmd.kind,
                                      !.light = cmd.light, !.value = cmd.value]]
    /\ handed' = handed + 1
    /\ UNCHANGED <<linkUp, hasConnected, reconnect_attempt, is_connected, status,
                   consecutive_failures, heap, dirVars, ticks, ecq>>

\* the loop runs the first step of the oldest task not yet started
Start(t) ==
    /\ t \in CmdTasks
    /\ task[t].pc = "queued"
    /\ \A u \in CmdTasks : u < t => task[u].pc # "queued"
    /\ Commit(begin_handler(Ctx, t))
    /\ UNCHANGED <<linkUp, hasConnected, handed, ticks>>

\* main(), lines 912-918: the 60 s sleep ends and the probe query is sent
ProbeTick ==
    /\ task[Probe].pc = "sleep"
    /\ ticks < MaxProbes
    /\ ticks' = ticks + 1
    /\ Commit(begin_handler(
           [Ctx EXCEPT !.task[Probe] = [IdleTask EXCEPT !.kind = "probe"]], Probe))
    /\ UNCHANGED <<linkUp, hasConnected, handed>>

\* ensure_connected: wait_for(driver.connected.wait(), 1) returns.  Every
\* task waits the same second for the same event, so the tasks leave this
\* wait in the order they entered it.
EcLive(t) ==
    /\ task[t].pc = "ec_wait"
    /\ t = Head(ecq)
    /\ linkUp
    /\ Commit(ensure_connected_live(Ctx, t))
    /\ UNCHANGED <<linkUp, hasConnected, handed, ticks>>

\* ensure_connected: wait_for(driver.connected.wait(), 1) times out
EcTimeout(t) ==
    /\ task[t].pc = "ec_wait"
    /\ t = Head(ecq)
    /\ ~linkUp
    /\ Commit(ensure_connected_timeout(Ctx, t))
    /\ UNCHANGED <<linkUp, hasConnected, handed, ticks>>

\* _attempt_reconnection: asyncio.sleep(backoff_delay) ends
BackoffDone(t) ==
    /\ task[t].pc = "backoff"
    /\ \E disconnect_ok \in BOOLEAN, connect_ok \in BOOLEAN :
         /\ disconnect_ok => connect_ok     \* connect_ok is read only after a raise
         /\ Commit(reconnect_after_backoff(Ctx, t, disconnect_ok, connect_ok))
    /\ UNCHANGED <<linkUp, hasConnected, handed, ticks>>

\* _attempt_reconnection: asyncio.sleep(1) after disconnect() ends
DiscSleepDone(t) ==
    /\ task[t].pc = "disc_sleep"
    /\ \E connect_ok \in BOOLEAN : Commit(reconnect_connect(Ctx, t, connect_ok))
    /\ UNCHANGED <<linkUp, hasConnected, handed, ticks>>

\* _attempt_reconnection: wait_for(driver.connected.wait(), 10) returns
RcLive(t) ==
    /\ task[t].pc = "rc_wait"
    /\ linkUp
    /\ Commit(reconnect_live(Ctx, t))
    /\ UNCHANGED <<linkUp, hasConnected, handed, ticks>>

\* _attempt_reconnection: wait_for(driver.connected.wait(), 10) times out
RcTimeout(t) ==
    /\ task[t].pc = "rc_wait"
    /\ ~linkUp
    /\ Commit(reconnect_timeout(Ctx, t))
    /\ UNCHANGED <<linkUp, hasConnected, handed, ticks>>

\* the driver answers: send/run_sequence records the success and returns
DrvReturn(t) ==
    /\ task[t].pc = "drv_wait"
    /\ \E resp \in Answers(task[t]) :
         Commit(on_return(send_returns(Ctx, t), t, resp))
    /\ UNCHANGED <<linkUp, hasConnected, handed, ticks>>

\* the driver raises: send/run_sequence records the failure and re-raises
DrvRaise(t) ==
    /\ task[t].pc = "drv_wait"
    /\ consecutive_failures < MaxFailures
    /\ task[t].kind = "initialize_lamps" => task[t].stage \in RescanFaults
    /\ \E exc \in Exceptions : Commit(on_raise(send_raises(Ctx, t), t, exc))
    /\ UNCHANGED <<linkUp, hasConnected, handed, ticks>>

\* the USB device goes away / comes back: driver.connected is cleared / set
LinkDrop ==
    /\ hasConnected
    /\ linkUp
    /\ linkUp' = FALSE
    /\ UNCHANGED <<hasConnected, reconnect_attempt, is_connected, status,
                   consecutive_failures, heap, dirVars, handed, ticks, ecq, task>>

LinkRestore ==
    /\ ~linkUp
    /\ linkUp' = TRUE
    /\ UNCHANGED <<hasConnected, reconnect_attempt, is_connected, status,
                   consecutive_failures, heap, dirVars, handed, ticks, ecq, task>>

\* on_connect / the scan command: dali_scan starts
ScanStart ==
    /\ task[ScanTask].pc = "none"
    /\ Commit(begin_handler([Ctx EXCEPT !.task[ScanTask].kind = "scan"], ScanTask))
    /\ UNCHANGED <<linkUp, hasConnected, handed, ticks>>

\* a suspended task resumes
Step(t) ==
    \/ EcLive(t)
    \/ EcTimeout(t)
    \/ BackoffDone(t)
    \/ DiscSleepDone(t)
    \/ RcLive(t)
    \/ RcTimeout(t)
    \/ DrvReturn(t)
    \/ DrvRaise(t)

\* the command handlers running concurrently on the event loop
Next ==
    \/ HandOff
    \/ \E t \in CmdTasks : Start(t) \/ Step(t)
    \/ LinkDrop
    \/ LinkRestore

Spec == Init /\ [][Next]_vars

\* ------------------------------------------------------------- one command at a time
\* The first initialize_lamps has found lamp 0, which has a colour
\* temperature range, and lamp 1, which has none and reports max level 200;
\* both are in group 0, whose own record was read with group-addressed
\* queries.
InitHeapSeq ==
    (1 :> [NewLamp(Short(0)) EXCEPT !.min_level = 85, !.max_level = 254,
                                    !.tc_coolest = 200, !.tc_warmest = 300, !.tc = 250])
    @@ (2 :> [NewLamp(Short(1)) EXCEPT !.min_physical_level = 1, !.min_level = 1,
                                       !.max_level = 200])
    @@ (3 :> [NewLamp(Group(0)) EXCEPT !.tc_coolest = 200, !.tc_warmest = 300,
                                       !.tc = 250])
    @@ (4 :> DefaultLamp(Broadcast))

InitSeq ==
    /\ linkUp = TRUE
    /\ hasConnected \in BOOLEAN
    /\ reconnect_attempt = 0
    /\ is_connected = TRUE
    /\ status = "online"
    /\ consecutive_failures = 0
    /\ heap = InitHeapSeq
    /\ all_lamps = [l \in Lights |->
                      CASE l = Short(0) -> 1 [] l = Short(1) -> 2
                        [] l = Group(0) -> 3 [] l = Broadcast -> 4
                        [] OTHER -> NoObj]
    /\ group_members = (Group(0) :> <<1, 2>>) @@ (Broadcast :> <<1, 2>>)
    /\ handed = 0
    /\ ticks = 0
    /\ ecq = <<>>
    /\ task = InitTasks

SeqCmds ==
    {Cmd("brightness", Short(1), v) : v \in {0, 254, 255}}
    \cup {Cmd("brightness", l, 100) : l \in {Group(0), Broadcast}}
    \cup {Cmd("tc", l, v) : l \in {Short(0), Group(0), Broadcast}, v \in {220, 400}}
    \cup {Cmd("fade_time", Short(0), v) : v \in {5, 16}}
    \cup {Cmd("fade_rate", Short(0), v) : v \in {0, 7}}
    \cup {Cmd("off", Group(0), 0)}

\* a command message arrives when the handler of the one before has ended
SeqHandOff ==
    /\ handed < MaxSeqCmds
    /\ task[1].pc \in {"none", "done", "failed"}
    /\ \E cmd \in SeqCmds :
         task' = [task EXCEPT ![1] =
                     [IdleTask EXCEPT !.pc = "queued", !.kind = cmd.kind,
                                      !.light = cmd.light, !.value = cmd.value]]
    /\ handed' = handed + 1
    /\ UNCHANGED <<linkUp, hasConnected, reconnect_attempt, is_connected, status,
                   consecutive_failures, heap, dirVars, ticks, ecq>>

NextSeq ==
    \/ SeqHandOff
    \/ Start(1)
    \/ EcLive(1)
    \/ DrvReturn(1)
    \/ DrvRaise(1)

SpecSeq == InitSeq /\ [][NextSeq]_vars

\* the bridge right after construction: no lamp is known yet
InitScan ==
    /\ linkUp = TRUE
    /\ hasConnected \in BOOLEAN
    /\ reconnect_attempt = 0
    /\ is_connected = FALSE
    /\ status = "online"
    /\ consecutive_failures = 0
    /\ heap = <<>>
    /\ all_lamps = [l \in Lights |-> NoObj]
    /\ group_members = <<>>
    /\ handed = 0
    /\ ticks = 0
    /\ ecq = <<>>
    /\ task = InitTasks

\* dali_scan running beside the probe loop of main()
NextScan ==
    \/ ScanStart
    \/ ProbeTick
    \/ \E t \in {ScanTask, Probe} : Step(t)
    \/ LinkDrop
    \/ LinkRestore

SpecScan == InitScan /\ [][NextScan]_vars

\* ------------------------------------------------------------- reconciliation
\* initialize_lamps: create_mqtt_lamp(address, name) is called
LampStart ==
    /\ task[LampTask].pc = "none"
    /\ \E addr \in {Short(0), Group(0), Broadcast} :
         Commit(begin_handler(
             [Ctx EXCEPT !.task[LampTask].kind = "create_lamp",
                         !.task[LampTask].light = addr], LampTask))
    /\ UNCHANGED <<linkUp, hasConnected, handed, ticks>>

\* an asyncio.sleep of Lamp.init ends and the next query is sent
NapDone(t) ==
    /\ task[t].pc = "nap"
    /\ Commit(Send(Ctx, t, task[t].stage))
    /\ UNCHANGED <<linkUp, hasConnected, handed, ticks>>

\* create_mqtt_lamp for one address on a link that stays up: every query
\* returns or raises
NextLamp ==
    \/ LampStart
    \/ NapDone(LampTask)
    \/ EcLive(LampTask)
    \/ DrvReturn(LampTask)
    \/ DrvRaise(LampTask)

SpecLamp == InitScan /\ [][NextLamp]_vars

\* ------------------------------------------------------------- group scan
\* initialize_lamps, line 330: scan_groups(driver, lamps) is called
GroupsStart ==
    /\ task[ScanTask].pc = "none"
    /\ \E lamps \in {<<0, 1>>, <<1>>} :
         Commit(begin_handler(
             [Ctx EXCEPT !.task[ScanTask].kind = "scan_groups",
                         !.task[ScanTask].lamps = lamps], ScanTask))
    /\ UNCHANGED <<linkUp, hasConnected, handed, ticks>>

\* scan_groups on a link that stays up: every query returns or raises
NextGroups ==
    \/ GroupsStart
    \/ EcLive(ScanTask)
    \/ DrvReturn(ScanTask)
    \/ DrvRaise(ScanTask)

SpecGroups == InitScan /\ [][NextGroups]_vars

\* ------------------------------------------------------------- rescan
\* the scan command: on_message_reinitialize_lamps_cmd runs initialize_lamps
RescanStart ==
    /\ task[ScanTask].pc = "none"
    /\ Commit(begin_handler(
           [Ctx EXCEPT !.task[ScanTask].kind = "initialize_lamps"], ScanTask))
    /\ UNCHANGED <<linkUp, hasConnected, handed, ticks>>

\* initialize_lamps after a first scan, on a link that stays up
NextRescan ==
    \/ RescanStart
    \/ EcLive(ScanTask)
    \/ NapDone(ScanTask)
    \/ DrvReturn(ScanTask)
    \/ DrvRaise(ScanTask)

SpecRescan == Init /\ [][NextRescan]_vars

\* a brightness command for group 0 or for broadcast arrives
RescanHandOff ==
    /\ handed < MaxRescanCmds
    /\ \E l \in {Group(0), Broadcast} :
         task' = [task EXCEPT ![handed + 1] =
                     [IdleTask EXCEPT !.pc = "queued", !.kind = "brightness",
                                      !.light = l, !.value = 100]]
    /\ handed' = handed + 1
    /\ UNCHANGED <<linkUp, hasConnected, reconnect_attempt, is_connected, status,
                   consecutive_failures, heap, dirVars, ticks, ecq>>

\* a command handler running beside initialize_lamps on the event loop
NextRescanCmd ==
    \/ NextRescan
    \/ RescanHandOff
    \/ Start(1)
    \/ EcLive(1)
    \/ DrvReturn(1)
    \/ DrvRaise(1)

SpecRescanCmd == Init /\ [][NextRescanCmd]_vars

\* ------------------------------------------------------------- the health monitor
\* outcomes recorded on the HealthMonitor so far
Recorded ==
    task[Probe].ret + task[Probe].rai + task[Monitor].pubs + task[Monitor].pubf

\* a DriverManager.send call returns: record_dali_command_success
BusReturn ==
    /\ Recorded < MaxRecords
    /\ Commit(send_returns(Ctx, Probe))
    /\ UNCHANGED <<linkUp, hasConnected, handed, ticks>>

\* a DriverManager.send call raises: record_dali_command_failure
BusRaise ==
    /\ Recorded < MaxRecords
    /\ Commit(send_raises(Ctx, Probe))
    /\ UNCHANGED <<linkUp, hasConnected, handed, ticks>>

PublishSuccess ==
    /\ Recorded < MaxRecords
    /\ Commit(record_mqtt_publish_success(Ctx))
    /\ UNCHANGED <<linkUp, hasConnected, handed, ticks>>

PublishFailure ==
    /\ Recorded < MaxRecords
    /\ Commit(record_mqtt_publish_failure(Ctx))
    /\ UNCHANGED <<linkUp, hasConnected, handed, ticks>>

\* main(), line 988: health_monitor.status = BridgeStatus.OFFLINE
MainOffline ==
    /\ status # "offline"
    /\ Commit([Ctx EXCEPT !.st = "offline"])
    /\ UNCHANGED <<linkUp, hasConnected, handed, ticks>>

\* start_monitoring, lines 100-105: previous_status = self.status, first sleep
MonitorStart ==
    /\ task[Monitor].pc = "none"
    /\ Commit([Ctx EXCEPT !.task[Monitor].pc = "sleep",
                           !.task[Monitor].kind = "monitor",
                           !.task[Monitor].prev = status])
    /\ UNCHANGED <<linkUp, hasConnected, handed, ticks>>

\* start_monitoring: asyncio.sleep(check_interval) ends
MonitorTick ==
    /\ task[Monitor].pc = "sleep"
    /\ Len(task[Monitor].notes) < MaxNotes
    /\ Commit(monitor_tick(Ctx))
    /\ UNCHANGED <<linkUp, hasConnected, handed, ticks>>

NextHealth ==
    \/ BusReturn
    \/ BusRaise
    \/ PublishSuccess
    \/ PublishFailure
    \/ MainOffline
    \/ MonitorStart
    \/ MonitorTick

SpecHealth == InitScan /\ [][NextHealth]_vars

\* ------------------------------------------------------------- properties
\* task t calls driver.send / driver.run_sequence in this step
Issued(t) ==
    /\ task'[t].pc = "drv_wait"
    /\ task[t].pc # "drv_wait" \/ task'[t].ops # task[t].ops

Reconnecting == {t \in Tasks : task[t].pc \in {"backoff", "disc_sleep", "rc_wait"}}

\* C1: every address in the list dali_scan builds answered yes to the presence
\* query and its confirmation query returned without error; an address whose
\* confirmation query failed is not in the list.
C1_ScanNeedsBothQueries ==
    \A a \in Range(task[ScanTask].lamps) :
        /\ a \in task[ScanTask].yes
        /\ a \in task[ScanTask].confirmed
        /\ a \notin task[ScanTask].conf_failed

C1_Witness ==
    /\ task[ScanTask].pc = "done"
    /\ task[ScanTask].lamps # <<>>
    /\ task[ScanTask].conf_failed # {}
    /\ task[ScanTask].yes # 0..MaxAddr

\* C2: when a brightness command with an accepted non-zero level L for a group
\* or broadcast completes, every member's cached level is L and the command
\* issued exactly one transport operation.
C2_GroupFanout ==
    [][\A t \in CmdTasks :
          (/\ task[t].pc = "drv_wait"
           /\ task'[t].pc = "done"
           /\ task[t].kind = "brightness"
           /\ task[t].light.kind \in {"group", "broadcast"}
           /\ task[t].value # 0)
          => /\ \A m \in Range(members_of(task[t].light)) :
                    heap'[m].level = task[t].value
             /\ task'[t].ops = 1]_vars

\* C3: at most one reconnection procedure is in progress at any time.
C3_OneReconnection == Cardinality(Reconnecting) <= 1

\* C4: the attempt counter stays within 0..max_reconnect_attempts.
C4_AttemptBounded ==
    0 <= reconnect_attempt /\ reconnect_attempt <= max_reconnect_attempts

C4_Witness ==
    /\ reconnect_attempt = max_reconnect_attempts
    /\ \E t \in Tasks : task[t].pc = "drv_wait" /\ task[t].ec = "false"
                        /\ task[t].conn = 0

\* C5: in the step in which ensure_connected (directly or through the
\* reconnection procedure) returns True, the attempt counter is 0 and
\* is_connected is True.
C5_SuccessResets ==
    [][\A t \in Tasks :
          /\ (Issued(t) /\ task'[t].ec = "true")
                => reconnect_attempt' = 0 /\ is_connected' = TRUE
          /\ (~hasConnected /\ task'[t].rai = task[t].rai + 1)
                => reconnect_attempt' = 0 /\ is_connected' = TRUE]_vars

C5_Witness ==
    \E t \in Tasks : /\ task[t].pc = "drv_wait"
                     /\ task[t].ec = "true"
                     /\ task[t].conn = 2
                     /\ reconnect_attempt = 0
                     /\ is_connected

\* C6: the delay slept before reconnection attempt k is min(2^k, 30): at most
\* 30, and not smaller than the delay of attempt k - 1.
C6_BackoffDelay ==
    [][\A t \in Tasks :
          (task'[t].pc = "backoff" /\ task[t].pc # "backoff")
          => LET k == reconnect_attempt'
                 PrescribedDelay == <<2, 4, 8, 16, 30>>
             IN /\ k \in DOMAIN PrescribedDelay
                /\ task'[t].delay = PrescribedDelay[k]
                /\ task'[t].delay <= 30
                /\ k > 1 => task'[t].delay >= PrescribedDelay[k - 1]]_vars

C6_Witness ==
    \E t \in Tasks : task[t].pc = "backoff" /\ task[t].delay = 30
                     /\ reconnect_attempt = 5

\* C7: when the counter is at the cap and the liveness wait of ensure_connected
\* times out, ensure_connected returns False: it does not raise, starts no
\* backoff sleep and calls neither disconnect nor connect.
C7_CapReturnsFalse ==
    [][\A t \in Tasks :
          (/\ task[t].pc = "ec_wait"
           /\ reconnect_attempt >= max_reconnect_attempts
           /\ ~linkUp
           /\ task'[t] # task[t])
          => /\ task'[t].ec = "false"
             /\ task'[t].pc = "drv_wait"
             /\ task'[t].delay = 0
             /\ task'[t].conn = 0
             /\ reconnect_attempt' = reconnect_attempt]_vars

C7_Witness ==
    \E t \in Tasks : /\ task[t].pc = "drv_wait"
                     /\ task[t].ec = "false"
                     /\ task[t].conn = 0
                     /\ task[t].delay = 0
                     /\ reconnect_attempt >= max_reconnect_attempts
                     /\ ~linkUp

\* C8: a send/run_sequence call that returns records one success and no
\* failure, one that raises records one failure and no success, and a call
\* still in progress has recorded nothing.
C8_OneRecordPerCall ==
    [][\A t \in Tasks :
          /\ task'[t].succ = task'[t].ret
          /\ task'[t].fail = task'[t].rai
          /\ task'[t].ret = task[t].ret + 1
                => /\ consecutive_failures' = 0
                   /\ status' = "online"
                   /\ task'[t].rai = task[t].rai
          /\ task'[t].rai = task[t].rai + 1
                => /\ consecutive_failures' = consecutive_failures + 1
                   /\ task'[t].ret = task[t].ret]_vars

C8_Witness ==
    \E t \in Tasks : /\ task[t].ret >= 1
                     /\ task[t].rai >= 1
                     /\ task[t].pc = "drv_wait"
                     /\ task[t].conn = 2

\* C9: no two transport operations are in flight at the same time.
C9_OneInFlight == Cardinality(InFlight) <= 1

\* C10: commands reach the bus in hand-off order: when a command issues a bus
\* operation, no command handed off after it has issued one yet.
C10_HandOffOrder ==
    [][\A u \in CmdTasks :
          Issued(u) => \A t \in CmdTasks : t > u => task[t].ops = 0]_vars

\* C11: from Online, a recorded bus failure degrades the status exactly when
\* it is the third consecutive one (an earlier one leaves it Online), and a
\* recorded bus success makes the status Online and the counter 0.
C11_ThirdFailureDegrades ==
    [][/\ (task'[Probe].rai = task[Probe].rai + 1 /\ status = "online")
            => /\ consecutive_failures < max_consecutive_failures
               /\ consecutive_failures' = consecutive_failures + 1
               /\ status' = IF consecutive_failures' = max_consecutive_failures
                            THEN "degraded" ELSE "online"
       /\ (task'[Probe].ret = task[Probe].ret + 1)
            => status' = "online" /\ consecutive_failures' = 0]_vars

C11_Witness ==
    /\ task[Probe].rai = 3
    /\ task[Probe].ret = 1
    /\ task[Monitor].pubf = 0
    /\ task[Monitor].notes = <<"degraded", "online">>
    /\ status = "online"
    /\ consecutive_failures = 0

\* C12: a success recorded on either channel while the status is not Online
\* makes the status Online.
C12_SuccessRecovers ==
    [][(/\ status # "online"
        /\ \/ task'[Probe].ret = task[Probe].ret + 1
           \/ task'[Monitor].pubs = task[Monitor].pubs + 1)
       => status' = "online"]_vars

\* C13: a failure recorded on either channel changes the status only from
\* Online to Degraded and only when the channel has failed at least three
\* times; it never changes a status of Offline or Reconnecting.
C13_FailureDegrades ==
    [][/\ (task'[Probe].rai = task[Probe].rai + 1 /\ status' # status)
            => /\ status = "online" /\ status' = "degraded"
               /\ consecutive_failures' >= max_consecutive_failures
       /\ (task'[Monitor].pubf = task[Monitor].pubf + 1 /\ status' # status)
            => /\ status = "online" /\ status' = "degraded"
               /\ task'[Monitor].pubf >= max_consecutive_failures]_vars

\* C14: the monitoring loop calls the callback at a tick only when the status
\* differs from the previously notified one, with the current status, and no
\* two consecutive notifications carry the same status.
C14_EdgeTriggered ==
    [][LET old == task[Monitor].notes
           new == task'[Monitor].notes
       IN new # old
          => /\ new = Append(old, status)
             /\ status # task[Monitor].prev
             /\ task'[Monitor].prev = status
             /\ old # <<>> => old[Len(old)] # status]_vars

C14_Witness ==
    /\ Len(task[Monitor].notes) = MaxNotes
    /\ task[Monitor].notes[1] = "degraded"
    /\ task[Monitor].notes[3] = "degraded"

\* the Lamp object create_mqtt_lamp is reconciling
LampObj == heap[task[LampTask].obj]

\* _get_actual_level has returned
LevelSettled == "tc" \in task[LampTask].ran

\* C15: once the status byte has been read with bit 2 clear, the level is 0
\* and no actual-level query is issued during the reconciliation.
C15_OffMeansNoLevelQuery ==
    (task[LampTask].status_byte # NoneVal
     /\ (task[LampTask].status_byte \div 4) % 2 = 0)
    => /\ task[LampTask].lvq = <<>>
       /\ task[LampTask].stage # "level"
       /\ LampObj.level = 0

C15_Witness ==
    /\ task[LampTask].pc = "done"
    /\ task[LampTask].status_byte = 2
    /\ all_lamps[Short(0)] # NoObj
    /\ LampObj.level = 0

\* C16: with the lamp on, at most 3 level queries are issued, each one but the
\* last answered by the MASK sentinel, and the level is the first numeric answer.
C16_RetryWhileMask ==
    LET q == task[LampTask].lvq
    IN /\ Len(q) <= 3
       /\ \A i \in 1..Len(q) - 1 : q[i] = Mask
       /\ (q # <<>> /\ q[Len(q)].k = "num") => LampObj.level = q[Len(q)].v

C16_Witness ==
    /\ task[LampTask].pc = "done"
    /\ task[LampTask].status_byte = 4
    /\ task[LampTask].lvq = <<Mask, Mask, Num(128)>>
    /\ LampObj.level = 128

\* C17: with the lamp on, when all 3 level queries answered the sentinel or a
\* level query answered another non-numeric value, the level is 254.
C17_FallbackFullOn ==
    LET q == task[LampTask].lvq
    IN (q = <<Mask, Mask, Mask>> \/ (q # <<>> /\ q[Len(q)].k \notin {"num", "MASK"}))
       => LampObj.level = 254

C17_Witness ==
    /\ task[LampTask].pc = "done"
    /\ task[LampTask].status_byte = 20
    /\ task[LampTask].lvq = <<Mask, Mask, Mask>>
    /\ LampObj.level = 254

\* C18: after the level of a device whose status byte reports lamp on has been
\* reconciled, the level is 0 only if a level query answered the number 0.
C18_OnNeverZero ==
    (/\ LevelSettled
     /\ hasConnected
     /\ task[LampTask].status_byte # NoneVal
     /\ (task[LampTask].status_byte \div 4) % 2 = 1
     /\ LampObj.level = 0)
    => \E i \in DOMAIN task[LampTask].lvq : task[LampTask].lvq[i] = Num(0)

\* C19: on an HID driver, reconciling an individual address always completes
\* with a device record in the directory and with every reconciliation step run.
C19_InitAlwaysCompletes ==
    (/\ hasConnected
     /\ task[LampTask].pc \in {"done", "failed"}
     /\ task[LampTask].light.kind = "short")
    => /\ task[LampTask].pc = "done"
       /\ all_lamps[task[LampTask].light] = task[LampTask].obj
       /\ task[LampTask].ran = {"limits", "fade", "level", "tc", "type", "memory"}

\* C20: after the colour-temperature step, the feature is present exactly when
\* the queried coolest and warmest are non-null and non-zero and the queried
\* current value lies between them; otherwise all three are absent.
C20_TcFeatureIff ==
    LET tk == task[LampTask]
        queried_ok == /\ tk.q_cool.k = "num" /\ tk.q_cool.v # 0
                      /\ tk.q_warm.k = "num" /\ tk.q_warm.v # 0
                      /\ tk.q_tc.k = "num"
                      /\ tk.q_cool.v <= tk.q_tc.v /\ tk.q_tc.v <= tk.q_warm.v
    IN ("tc" \in tk.ran /\ tk.pc = "done")
       => IF queried_ok
          THEN /\ LampObj.tc_coolest = tk.q_cool.v
               /\ LampObj.tc_warmest = tk.q_warm.v
               /\ LampObj.tc = tk.q_tc.v
          ELSE /\ LampObj.tc_coolest = NoneVal
               /\ LampObj.tc_warmest = NoneVal
               /\ LampObj.tc = NoneVal

\* ------------------------------------------------------------- commands
\* C21: a brightness command with value 0 is executed as an off transition:
\* the driver is never handed a direct-level (DAPC) command for that request,
\* and when the handler has ended normally the Off command was the only
\* operation issued and the cached level of the addressed device is 0.
C21_ZeroIsOffOnly ==
    \A t \in CmdTasks :
        (task[t].kind = "brightness" /\ task[t].value = 0 /\ hasConnected) =>
            /\ ~(task[t].pc = "drv_wait" /\ task[t].stage = "dapc")
            /\ (task[t].pc = "done" /\ task[t].obj # NoObj) =>
                   (task[t].ops = 1 /\ heap[task[t].obj].level = 0)

\* C22: a set-level, set-colour-temperature, set-fade-time or set-fade-rate
\* request with an unsupported or out-of-range value (colour temperature on
\* a device without the feature or outside [coolest, warmest], fade time
\* outside 0..15, fade rate outside 1..15, level outside 0..254 and so
\* outside every dimming range) ends in the step that starts it, with no
\* transport operation issued and no cached state changed.
C22_RejectedBeforeTransport ==
    [][\A t \in CmdTasks :
         LET tk == task[t]
             l == heap[all_lamps[tk.light]]
             bad == CASE tk.kind = "tc" ->
                            \/ l.tc_coolest = NoneVal \/ l.tc_warmest = NoneVal
                            \/ tk.value < l.tc_coolest \/ tk.value > l.tc_warmest
                      [] tk.kind = "fade_time" -> tk.value \notin 0..15
                      [] tk.kind = "fade_rate" -> tk.value \notin 1..15
                      [] tk.kind = "brightness" -> tk.value \notin 0..DAPC_SCALE
                      [] OTHER -> FALSE
         IN (tk.pc = "queued" /\ task'[t].pc # "queued" /\ hasConnected
               /\ all_lamps[tk.light] # NoObj /\ bad) =>
                (task'[t].pc = "done" /\ task'[t].ops = 0 /\ heap' = heap)]_vars

\* ------------------------------------------------------------- device records
\* C26: a device record that reconciliation has stored satisfies
\* 0 <= min_physical_level <= min_level <= max_level <= 254, whatever the
\* three limit queries answered.
C26_LimitsOrdered ==
    (/\ hasConnected
     /\ task[LampTask].pc = "done"
     /\ task[LampTask].light.kind = "short"
     /\ all_lamps[task[LampTask].light] = task[LampTask].obj)
    => /\ 0 <= LampObj.min_physical_level
       /\ LampObj.min_physical_level <= LampObj.min_level
       /\ LampObj.min_level <= LampObj.max_level
       /\ LampObj.max_level <= 254

\* C27: whenever no command is being handled, the cached level of every
\* device lies between 0 and the max level of that device.
C27_LevelWithinMax ==
    (hasConnected /\ \A t \in CmdTasks : task[t].pc \in {"none", "done"})
    => \A o \in DOMAIN heap : 0 <= heap[o].level /\ heap[o].level <= heap[o].max_level

\* C28: a stored device record that has a colour temperature range and a
\* current colour temperature has the current value inside its own range.
C28_TcWithinRange ==
    (/\ hasConnected
     /\ task[LampTask].pc = "done"
     /\ task[LampTask].light.kind = "short"
     /\ all_lamps[task[LampTask].light] = task[LampTask].obj
     /\ LampObj.tc_coolest # NoneVal /\ LampObj.tc_warmest # NoneVal
     /\ LampObj.tc # NoneVal)
    => (LampObj.tc_coolest <= LampObj.tc /\ LampObj.tc <= LampObj.tc_warmest)

\* C29: when a colour temperature command addressed to a group or to
\* broadcast has been sent and its handler has ended, one bus operation was
\* issued and the cached colour temperature of every member is the commanded
\* value.
C29_TcFanout ==
    \A t \in CmdTasks :
        (/\ hasConnected
         /\ task[t].kind = "tc" /\ task[t].light.kind \in {"group", "broadcast"}
         /\ task[t].pc = "done" /\ task[t].ret = 1)
        => /\ task[t].ops = 1
           /\ \A i \in DOMAIN group_members[task[t].light] :
                  heap[group_members[task[t].light][i]].tc = task[t].value

\* C30: reconciling a group or the broadcast address hands no query to the
\* driver and stores the default record: min level 0, max level 254, level 0,
\* no colour temperature.
C30_GroupTakesDefaults ==
    (hasConnected /\ task[LampTask].light.kind \in {"group", "broadcast"})
    => /\ task[LampTask].ops = 0
       /\ task[LampTask].pc = "done" =>
              /\ all_lamps[task[LampTask].light] = task[LampTask].obj
              /\ LampObj.min_level = 0 /\ LampObj.max_level = 254
              /\ LampObj.level = 0
              /\ LampObj.tc_coolest = NoneVal /\ LampObj.tc_warmest = NoneVal
              /\ LampObj.tc = NoneVal

\* ------------------------------------------------------------- group scan
\* C23: when scan_groups returns, a lamp whose two group masks were read is
\* in group g (0..15) exactly when bit g of its groups-0-to-7 mask (g < 8) or
\* bit g - 8 of its groups-8-to-15 mask (g >= 8) is set, and it is in the
\* list of such a group once; a lamp whose query failed is in no group.
C23_GroupsFromMasks ==
    LET tk == task[ScanTask]
        in_group(a, g) == g \in DOMAIN tk.groups.val /\ a \in Range(tk.groups.val[g])
        times(a, g) == IF g \in DOMAIN tk.groups.val
                       THEN Len(SelectSeq(tk.groups.val[g], LAMBDA x : x = a)) ELSE 0
        bit(m, i) == (m \div (2 ^ i)) % 2 = 1
    IN (tk.kind = "scan_groups" /\ tk.pc = "done") =>
         /\ DOMAIN tk.groups.val \subseteq 0..15
         /\ \A a \in Range(tk.lamps) : \A g \in 0..15 :
              /\ in_group(a, g) <=>
                    /\ a \in DOMAIN tk.masks
                    /\ IF g < 8 THEN bit(tk.masks[a][1], g) ELSE bit(tk.masks[a][2], g - 8)
              /\ times(a, g) <= 1

\* scan_groups has returned: lamp 0 answered 129 and 1 and is in groups 0, 7
\* and 8; lamp 1 answered 6 and 130 and is in groups 1, 2, 9 and 15
C23_Witness ==
    LET tk == task[ScanTask]
    IN /\ tk.kind = "scan_groups" /\ tk.pc = "done"
       /\ tk.lamps = <<0, 1>>
       /\ DOMAIN tk.masks = {0, 1}
       /\ tk.masks[0] = <<129, 1>> /\ tk.masks[1] = <<6, 130>>
       /\ tk.groups.val[8] = <<0>> /\ tk.groups.val[9] = <<1>>
       /\ DOMAIN tk.groups.val = {0, 7, 8, 1, 2, 9, 15}

\* ------------------------------------------------------------- rescan
\* C24: when a rescan in which no query raised has completed and has found
\* a lamp, the members of broadcast are the records of exactly the individual
\* addresses that the scan found live.
C24_BroadcastIsLastScan ==
    LET tk == task[ScanTask]
    IN (hasConnected /\ tk.kind = "initialize_lamps" /\ tk.pc = "done"
          /\ tk.lamps # <<>> /\ tk.rai = 0) =>
         /\ Broadcast \in DOMAIN group_members
         /\ {heap[o].short_address.id : o \in Range(group_members[Broadcast])}
                = Range(tk.lamps)

\* C25: broadcast has members before a rescan and after it, so the handler
\* of a broadcast brightness command that does its fan-out while the rescan
\* is in progress (no query of the rescan has raised) finds a membership that
\* is not empty, and after the fan-out every record that is a member has the
\* commanded level.
C25_MembersSeenWhole ==
    [][\A t \in CmdTasks :
         (/\ hasConnected
          /\ task[t].kind = "brightness" /\ task[t].light = Broadcast
          /\ task[t].pc = "drv_wait" /\ task'[t].pc = "done"
          /\ task'[t].ret = task[t].ret + 1
          /\ task[ScanTask].rai = 0)
         => /\ members_get(Broadcast) # <<>>
            /\ \A o \in Range(members_get(Broadcast)) : heap'[o].level = task[t].value]_vars

C32_GroupQueryFailureSkips ==
    [][LET tk == task[ScanTask]
           nx == task'[ScanTask]
           lamp == tk.lamps[tk.idx]
       IN (/\ tk.kind = "scan_groups" /\ tk.pc = "drv_wait"
           /\ nx.pc # "drv_wait"
           /\ ~(nx.stage = "groups815" /\ nx.idx = tk.idx)
           /\ lamp \notin DOMAIN nx.masks)
          => /\ nx.groups = tk.groups
             /\ \A g \in DOMAIN nx.groups.val : lamp \notin Range(nx.groups.val[g])
             /\ IF tk.idx < Len(tk.lamps)
                THEN nx.idx = tk.idx + 1 /\ nx.stage = "groups07" /\ nx.pc = "ec_wait"
                ELSE nx.pc = "done"]_vars

\* the second group query of lamp 0 raised after the first answered 129;
\* lamp 1 answered 1 and 1: it is in groups 0 and 8, lamp 0 in none
C32_Witness ==
    LET tk == task[ScanTask]
    IN /\ tk.kind = "scan_groups" /\ tk.pc = "done"
       /\ tk.lamps = <<0, 1>>
       /\ tk.rai = 1 /\ tk.ret = 3
       /\ DOMAIN tk.masks = {1}
       /\ tk.masks[1] = <<1, 1>>
       /\ tk.groups.val = (0 :> <<1>>) @@ (8 :> <<1>>)

\* C33: when the transport operation of the first set-level or
\* set-colour-temperature command for a single lamp raises, the lamp's cached
\* level and colour temperature are the ones it had before the command.
C33_CacheKeptOnFailure ==
    LET tk == task[1]
    IN (/\ hasConnected /\ handed = 1
        /\ tk.kind \in {"brightness", "tc"} /\ tk.light.kind = "short"
        /\ tk.pc = "failed" /\ tk.rai = 1
        /\ tk.stage \in {"dapc", "set_tc"})
       => /\ heap[tk.obj].level = InitHeapSeq[tk.obj].level
          /\ heap[tk.obj].tc = InitHeapSeq[tk.obj].tc

\* ------------------------------------------------- reconnection and health
\* C36: while a call of ensure_connected is inside the reconnection procedure
\* (backoff sleep, disconnect pause, wait for the connected event), the
\* health status is Reconnecting.
C36_ReconnectingObservable ==
    (hasConnected /\ Reconnecting # {}) => status = "reconnecting"

\* C37: an operation of send or run_sequence is in flight on the transport
\* only when the ensure_connected of that call returned True.
C37_SendOnlyWhenConnected ==
    \A t \in Tasks :
        (hasConnected /\ task[t].pc = "drv_wait") => task[t].ec = "true"

\* C39: a scan in which nothing but presence queries failed (each with a
\* DALIError, at an address that is then taken as absent) leaves the status
\* Online.
C39_AbsentKeepsOnline ==
    LET tk == task[ScanTask]
    IN (/\ hasConnected /\ linkUp /\ is_connected /\ reconnect_attempt = 0
        /\ tk.kind = "scan" /\ tk.pc = "done"
        /\ tk.rai = Cardinality(tk.pres_failed)
        /\ tk.conf_failed = {}
        /\ task[Probe].ops = 0)
       => status = "online"

\* C38: between the first and the last bus operation of a fade-time or
\* fade-rate write, no other handler issues a bus operation.
C38_FadeWriteNotInterleaved ==
    [][\A t \in CmdTasks :
          (/\ hasConnected
           /\ task[t].kind \in {"fade_time", "fade_rate"}
           /\ task[t].ops \in 1..2
           /\ task[t].pc \notin {"done", "failed"})
          => \A u \in CmdTasks \ {t} : ~Issued(u)]_vars

\* C40: whenever the status is Online, the counter of consecutive bus
\* failures is below max_consecutive_failures.
C40_OnlineBelowThreshold ==
    status = "online" => consecutive_failures < max_consecutive_failures

\* the status was degraded by three failures, a success made it Online again,
\* and a further failure has been recorded since
C40_Witness ==
    /\ status = "online"
    /\ consecutive_failures = 1
    /\ task[Probe].rai = max_consecutive_failures + 1
    /\ task[Probe].ret = 1
    /\ task[Monitor].notes = <<"degraded", "online">>

\* ------------------------------------------------------------------ rescan
\* C34: when initialize_lamps has run over a bus on which address a was
\* already known, the cached level and colour temperature of lamp a are the
\* ones cached before the rescan.
C34_RescanKeepsLiveValues ==
    LET tk == task[ScanTask]
    IN (/\ hasConnected /\ tk.kind = "initialize_lamps" /\ tk.pc = "done"
        /\ tk.rai = 0)
       => \A a \in Range(tk.lamps) \cap {0, 1} :
             /\ heap[all_lamps[Short(a)]].level = InitHeap[a + 1].level
             /\ heap[all_lamps[Short(a)]].tc = InitHeap[a + 1].tc

\* ------------------------------------------------------------- the loop of main()
\* main(), lines 912-918: the 60 s sleep of one more iteration ends and the
\* probe query is sent; unhealthy_since lives on across the iterations
MainTick ==
    /\ task[Probe].pc = "sleep"
    /\ task[Probe].now < MaxChecks
    /\ Commit(begin_handler([Ctx EXCEPT !.task[Probe].now = @ + 1], Probe))
    /\ UNCHANGED <<linkUp, hasConnected, handed, ticks>>

\* the loop of main() beside command handlers, publish failures and a link
\* that comes and goes
NextMain ==
    \/ MainTick
    \/ Step(Probe)
    \/ RescanHandOff
    \/ Start(1)
    \/ Step(1)
    \/ PublishFailure
    \/ LinkDrop
    \/ LinkRestore

SpecMain == Init /\ [][NextMain]_vars

====
